---- MODULE Spec2Model ----
(***************************************************************************)
(* Model of modded_cmthingy.py: the black-interval cleaner, the break      *)
(* selector, the chapter-document writer and the process_video driver.     *)
(*                                                                         *)
(* Time.  The program holds times as float seconds.  The model holds them  *)
(* as integers counting half-milliseconds (1 s = 2000 ticks): the signal   *)
(* events are given to the millisecond (an even number of ticks), and the  *)
(* only division the program performs on a time is the halving of a sum of *)
(* two times (lines 67 and 138), so every time the program computes from   *)
(* such inputs is exact in this unit, except the gap midpoint of line 138, *)
(* which is only ever compared (line 144) and is kept doubled there.       *)
(* Floating-point rounding is not modelled.                                *)
(***************************************************************************)
EXTENDS Integers, Sequences, FiniteSets, TLC

VARIABLES
    pc,               \* position in process_video, or in the core-function driver
    write_chapters,   \* process_video's write_chapters argument
    max_gap,          \* the max_gap / max_gap_minutes argument (minutes)
    duration,         \* Optional float: <<>> is None, <<d>> is d (ticks)
    blacks,           \* list of black intervals
    silences,         \* list of silence intervals
    scenes,           \* list of scene cuts
    margins,          \* <<start, end>> passed to clean_black_spaces
    cleaned,          \* value returned by clean_black_spaces
    breaks,           \* value returned by find_optimal_breaks / break_points
    ffmetadata,       \* Optional file content: <<>> absent, <<doc>> written
    console           \* what console.print has shown, in order

vars == <<pc, write_chapters, max_gap, duration, blacks, silences, scenes,
          margins, cleaned, breaks, ffmetadata, console>>

----------------------------------------------------------------------------
(* Units *)

Ms(m) == 2 * m
Sec(s) == Ms(1000 * s)

(* Python's int() on a non-integral float truncates toward zero; x is in   *)
(* ticks and the result is x * 1000 in whole milliseconds.                 *)
int_ms(x) == IF x >= 0 THEN x \div 2 ELSE -((-x) \div 2)

abs(x) == IF x >= 0 THEN x ELSE -x

(* Program constants (seconds, minutes) *)
DEFAULT_START == 20
DEFAULT_END == 10
GAP_MARGIN == 30
SECONDS_PER_MINUTE == 60
DEFAULT_MAX_GAP == 12

(* Model bounds: the longest lists of signal events and of given breaks *)
MaxBlacks == 2
MaxScenes == 2
MaxBreaks == 2

None == <<>>
Some(x) == <<x>>

SeqsUpTo(S, n) == UNION {[1..k -> S] : k \in 0..n}

----------------------------------------------------------------------------
(* Signal events *)

(* detect_black_spaces: one record per blackdetect line, center computed *)
black_data(start, end) ==
    [start |-> start, end |-> end, center |-> (start + end) \div 2]

(* detect_silence: one record per silence_start/silence_end pair *)
silence_data(start, end) ==
    [start |-> start, end |-> end, center |-> (start + end) \div 2,
     duration |-> end - start]

(* detect_scenes: one record per pts_time *)
scene_data(t) == [timestamp |-> t]

----------------------------------------------------------------------------
(* clean_black_spaces *)

(* faulty variant: the margins themselves are kept (>= and <=) *)
clean_inclusive(bs, dur, start, end) ==
    SelectSeq(bs, LAMBDA b : b.start >= start /\ b.end <= dur - end)

clean_black_spaces(bs, dur, start, end) ==
    SelectSeq(bs, LAMBDA b : b.start > start /\ b.end < dur - end)

----------------------------------------------------------------------------
(* find_optimal_breaks *)

(* faulty variant: the list is left in the order it was built *)
sort_skipped(s) == s

(* list.sort(key=timestamp): stable, ascending *)
RECURSIVE insert_sorted(_, _)
insert_sorted(x, s) ==
    IF s = <<>> THEN <<x>>
    ELSE IF s[Len(s)].timestamp <= x.timestamp THEN Append(s, x)
    ELSE Append(insert_sorted(x, SubSeq(s, 1, Len(s) - 1)), s[Len(s)])

RECURSIVE sort_by_timestamp(_)
sort_by_timestamp(s) ==
    IF s = <<>> THEN <<>>
    ELSE insert_sorted(s[Len(s)], sort_by_timestamp(SubSeq(s, 1, Len(s) - 1)))

seed_breaks(bs) ==
    [i \in 1..Len(bs) |->
        [timestamp |-> bs[i].center, type |-> "black", confidence |-> "high"]]

(* faulty variant: a trailing gap from the last break to the duration *)
find_gaps_trailing(filled, dur, mg) ==
    IF filled # <<>>
    THEN LET lead == IF filled[1].timestamp > mg
                     THEN << <<0, filled[1].timestamp>> >>
                     ELSE <<>>
             pairs == [i \in 1..(Len(filled) - 1) |->
                          <<filled[i].timestamp, filled[i + 1].timestamp>>]
             trail == IF dur - filled[Len(filled)].timestamp > mg
                      THEN << <<filled[Len(filled)].timestamp, dur>> >>
                      ELSE <<>>
         IN  lead \o SelectSeq(pairs, LAMBDA g : g[2] - g[1] > mg) \o trail
    ELSE << <<0, dur>> >>

(* faulty variant: without blacks, a gap only when the video exceeds the max gap *)
find_gaps_long_only(filled, dur, mg) ==
    IF filled # <<>>
    THEN LET lead == IF filled[1].timestamp > mg
                     THEN << <<0, filled[1].timestamp>> >>
                     ELSE <<>>
             pairs == [i \in 1..(Len(filled) - 1) |->
                          <<filled[i].timestamp, filled[i + 1].timestamp>>]
         IN  lead \o SelectSeq(pairs, LAMBDA g : g[2] - g[1] > mg)
    ELSE IF dur > mg THEN << <<0, dur>> >> ELSE <<>>

(* faulty variant: a gap already at exactly the max gap (>=) *)
find_gaps_inclusive(filled, dur, mg) ==
    IF filled # <<>>
    THEN LET lead == IF filled[1].timestamp >= mg
                     THEN << <<0, filled[1].timestamp>> >>
                     ELSE <<>>
             pairs == [i \in 1..(Len(filled) - 1) |->
                          <<filled[i].timestamp, filled[i + 1].timestamp>>]
         IN  lead \o SelectSeq(pairs, LAMBDA g : g[2] - g[1] >= mg)
    ELSE << <<0, dur>> >>

(* lines 127-135: the gaps, in the order they are appended *)
find_gaps(filled, dur, mg) ==
    IF filled # <<>>
    THEN LET lead == IF filled[1].timestamp > mg
                     THEN << <<0, filled[1].timestamp>> >>
                     ELSE <<>>
             pairs == [i \in 1..(Len(filled) - 1) |->
                          <<filled[i].timestamp, filled[i + 1].timestamp>>]
         IN  lead \o SelectSeq(pairs, LAMBDA g : g[2] - g[1] > mg)
    ELSE << <<0, dur>> >>

(* faulty variant: the margins themselves qualify (<=) *)
candidates_inclusive(sc, gstart, gend) ==
    SelectSeq(sc, LAMBDA s : gstart + Sec(GAP_MARGIN) <= s.timestamp
                             /\ s.timestamp <= gend - Sec(GAP_MARGIN))

(* faulty variant: the upper end of the gap is not tested *)
candidates_no_upper(sc, gstart, gend) ==
    SelectSeq(sc, LAMBDA s : gstart + Sec(GAP_MARGIN) < s.timestamp)

(* lines 139-142 *)
candidates(sc, gstart, gend) ==
    SelectSeq(sc, LAMBDA s : gstart + Sec(GAP_MARGIN) < s.timestamp
                             /\ s.timestamp < gend - Sec(GAP_MARGIN))

(* abs(s["timestamp"] - center) with center = (gstart + gend) / 2, doubled *)
key2(s, gstart, gend) == abs(2 * s.timestamp - (gstart + gend))

(* min(candidates, key=...): the first element with the least key *)
RECURSIVE min_from(_, _, _, _, _)
min_from(c, i, best, gstart, gend) ==
    IF i > Len(c) THEN best
    ELSE IF key2(c[i], gstart, gend) < key2(best, gstart, gend)
         THEN min_from(c, i + 1, c[i], gstart, gend)
         ELSE min_from(c, i + 1, best, gstart, gend)

(* faulty variant: the last element with the least key *)
RECURSIVE min_from_last(_, _, _, _, _)
min_from_last(c, i, best, gstart, gend) ==
    IF i > Len(c) THEN best
    ELSE IF key2(c[i], gstart, gend) <= key2(best, gstart, gend)
         THEN min_from_last(c, i + 1, c[i], gstart, gend)
         ELSE min_from_last(c, i + 1, best, gstart, gend)

best_scene_last(c, gstart, gend) == min_from_last(c, 2, c[1], gstart, gend)

best_scene(c, gstart, gend) == min_from(c, 2, c[1], gstart, gend)

(* lines 137-149: the loop over the gaps *)
RECURSIVE fill_gaps(_, _, _, _)
fill_gaps(filled, gaps, k, sc) ==
    IF k > Len(gaps) THEN filled
    ELSE LET c == candidates(sc, gaps[k][1], gaps[k][2])
         IN  IF c # <<>>
             THEN fill_gaps(
                    Append(filled,
                           [timestamp |-> best_scene(c, gaps[k][1], gaps[k][2]).timestamp,
                            type |-> "scene", confidence |-> "medium"]),
                    gaps, k + 1, sc)
             ELSE fill_gaps(filled, gaps, k + 1, sc)

find_optimal_breaks(dur, bs, sil, sc, max_gap_minutes) ==
    LET sorted == sort_by_timestamp(seed_breaks(bs))
        mg     == Sec(max_gap_minutes * SECONDS_PER_MINUTE)
        gaps   == find_gaps(sorted, dur, mg)
    IN  sort_by_timestamp(fill_gaps(sorted, gaps, 1, sc))

----------------------------------------------------------------------------
(* write_chapters_to_video: the metadata document of lines 161-178 *)

chapter_title(i) == "Chapter " \o ToString(i)

(* faulty variant: prev is never advanced *)
prev_never_updated(break_points, i) == 0

(* the value of prev when the i-th [CHAPTER] block is written *)
prev_at(break_points, i) ==
    IF i = 1 THEN 0 ELSE break_points[i - 1].timestamp

chapter_records(break_points, dur) ==
    [i \in 1..(Len(break_points) + 1) |->
        [TIMEBASE |-> "1/1000",
         START    |-> int_ms(prev_at(break_points, i)),
         END      |-> IF i <= Len(break_points)
                      THEN int_ms(break_points[i].timestamp)
                      ELSE int_ms(dur),
         title    |-> chapter_title(i)]]

chapter_document(break_points, dur) ==
    [header   |-> <<";FFMETADATA1", "encoder=cmthingy">>,
     chapters |-> chapter_records(break_points, dur)]

----------------------------------------------------------------------------
(* get_video_duration and the truth value process_video tests *)

(* out is <<>> when no line of ffmpeg's output matches                     *)
(* Duration: h:m:s.ss, and <<h, m, s>> (s in ticks) when one does.         *)
get_video_duration(out) ==
    IF out = <<>> THEN None ELSE Some(Sec(out[1] * 3600 + out[2] * 60) + out[3])

(* Python's "not duration": None and 0.0 are both false *)
not_duration(d) == d = None \/ d = Some(0)

(* one console.print: a line of text, or the table with its rows *)
message(text) == [text |-> text, rows |-> <<>>]

(* the rows of the table of lines 216-218: divmod(int(timestamp), 60) *)
table_rows(bps) ==
    [i \in 1..Len(bps) |->
        <<i, (bps[i].timestamp \div Sec(1)) \div 60,
             (bps[i].timestamp \div Sec(1)) % 60>>]

----------------------------------------------------------------------------
(* The inputs the model draws from *)

BlackIntervals ==
    { black_data(Sec(20), Sec(22)),       \* starts exactly at the start margin
      black_data(Sec(59), Sec(61)),       \* centre 60 s
      black_data(Ms(89001), Sec(90)),     \* centre 89.5005 s, ends at 100 s - 10 s
      black_data(Sec(179), Sec(181)) }    \* centre 180 s

SceneCuts ==
    { scene_data(Sec(30)), scene_data(Sec(50)), scene_data(Sec(70)),
      scene_data(Sec(130)), scene_data(Sec(150)), scene_data(Sec(250)) }

SilenceLists == { <<>>, <<silence_data(Sec(49), Sec(51))>> }

CoreDurations == { Sec(0), Sec(100), Sec(400) }

WriterDurations == CoreDurations \cup { Sec(120) }

CoreMaxGaps == { 0, 1, 2 }

MaxGapMinutes == CoreMaxGaps \cup { DEFAULT_MAX_GAP }

DefaultMargins == <<Sec(DEFAULT_START), Sec(DEFAULT_END)>>

Margins == { DefaultMargins, <<Sec(59), Sec(219)>> }

(* what ffmpeg -i may print: no usable Duration line, 0 s, 100 s, 400 s *)
ProbeOutputs == { <<>>, <<0, 0, 0>>, <<0, 1, Sec(40)>>, <<0, 6, Sec(40)>> }

GivenBreakPoints ==
    { [timestamp |-> t, type |-> "black", confidence |-> "high"] :
          t \in { Sec(30), Sec(90), Ms(89500) + 1 } }
    \cup { [timestamp |-> Sec(50), type |-> "scene", confidence |-> "medium"] }

(* ffmpeg reports events in stream order and inside the stream *)
DetectedBlacks(dur) ==
    { s \in SeqsUpTo({ b \in BlackIntervals : b.end <= dur }, MaxBlacks) :
          \A i \in 1..(Len(s) - 1) : s[i].end <= s[i + 1].start }

DetectedScenes(dur) ==
    { s \in SeqsUpTo({ c \in SceneCuts : c.timestamp <= dur }, MaxScenes) :
          \A i \in 1..(Len(s) - 1) : s[i].timestamp < s[i + 1].timestamp }

----------------------------------------------------------------------------
(* process_video, one file (main calls it once, lines 233-239) *)

Init ==
    /\ pc = "start"
    /\ write_chapters \in BOOLEAN
    /\ max_gap \in MaxGapMinutes
    /\ duration = None
    /\ blacks = <<>>
    /\ silences = <<>>
    /\ scenes = <<>>
    /\ margins = DefaultMargins
    /\ cleaned = <<>>
    /\ breaks = <<>>
    /\ ffmetadata = None
    /\ console = <<>>

(* lines 199-201 *)
ProbeDuration ==
    /\ pc = "start"
    /\ \E out \in ProbeOutputs : duration' = get_video_duration(out)
    /\ console' = Append(console, message("Processing"))
    /\ pc' = "probed"
    /\ UNCHANGED <<write_chapters, max_gap, blacks, silences, scenes, margins,
                   cleaned, breaks, ffmetadata>>

(* lines 202-204 *)
AbortNoDuration ==
    /\ pc = "probed"
    /\ not_duration(duration)
    /\ console' = Append(console, message("Could not get duration"))
    /\ pc' = "aborted"
    /\ UNCHANGED <<write_chapters, max_gap, duration, blacks, silences, scenes,
                   margins, cleaned, breaks, ffmetadata>>

(* lines 206-208 *)
DetectSignals ==
    /\ pc = "probed"
    /\ ~not_duration(duration)
    /\ blacks' \in DetectedBlacks(duration[1])
    /\ silences' \in SilenceLists
    /\ scenes' \in DetectedScenes(duration[1])
    /\ pc' = "detected"
    /\ UNCHANGED <<write_chapters, max_gap, duration, margins, cleaned, breaks,
                   ffmetadata, console>>

(* line 210 *)
CleanBlacks ==
    /\ pc = "detected"
    /\ blacks' = clean_black_spaces(blacks, duration[1], margins[1], margins[2])
    /\ cleaned' = blacks'
    /\ pc' = "cleaned"
    /\ UNCHANGED <<write_chapters, max_gap, duration, silences, scenes, margins,
                   breaks, ffmetadata, console>>

(* lines 211-221 *)
SelectBreaks ==
    /\ pc = "cleaned"
    /\ breaks' = find_optimal_breaks(duration[1], blacks, silences, scenes, max_gap)
    /\ console' = Append(console, [text |-> "Chapters", rows |-> table_rows(breaks')])
    /\ pc' = IF write_chapters THEN "write" ELSE "returned"
    /\ UNCHANGED <<write_chapters, max_gap, duration, blacks, silences, scenes,
                   margins, cleaned, ffmetadata>>

(* lines 222, 157-178 *)
WriteMetadata ==
    /\ pc = "write"
    /\ ffmetadata' = Some(chapter_document(breaks, duration[1]))
    /\ pc' = "remux"
    /\ UNCHANGED <<write_chapters, max_gap, duration, blacks, silences, scenes,
                   margins, cleaned, breaks, console>>

(* lines 180-194: the remux succeeds or fails, the metadata file is removed *)
Remux ==
    /\ pc = "remux"
    /\ \E returncode \in {0, 1} :
          console' = Append(console,
                            IF returncode = 0
                            THEN message("Chapters written successfully")
                            ELSE message("Error writing chapters"))
    /\ ffmetadata' = None
    /\ pc' = "returned"
    /\ UNCHANGED <<write_chapters, max_gap, duration, blacks, silences, scenes,
                   margins, cleaned, breaks>>

Next ==
    \/ ProbeDuration
    \/ AbortNoDuration
    \/ DetectSignals
    \/ CleanBlacks
    \/ SelectBreaks
    \/ WriteMetadata
    \/ Remux

Spec == Init /\ [][Next]_vars

----------------------------------------------------------------------------
(* The core functions on their own, over every input of the bounded sets *)

InitCore ==
    /\ write_chapters = FALSE
    /\ max_gap \in CoreMaxGaps
    /\ silences = <<>>
    /\ margins = DefaultMargins
    /\ cleaned = <<>>
    /\ ffmetadata = None
    /\ console = <<>>
    /\ \/ /\ pc = "input"
          /\ duration \in { Some(d) : d \in CoreDurations }
          /\ blacks \in SeqsUpTo(BlackIntervals, MaxBlacks)
          /\ scenes \in SeqsUpTo(SceneCuts, MaxScenes)
          /\ breaks = <<>>
       \/ /\ pc = "breaks_given"
          /\ duration \in { Some(d) : d \in WriterDurations }
          /\ blacks = <<>>
          /\ scenes = <<>>
          /\ breaks \in SeqsUpTo(GivenBreakPoints, MaxBreaks)

CallClean ==
    /\ pc = "input"
    /\ margins' \in Margins
    /\ cleaned' = clean_black_spaces(blacks, duration[1], margins'[1], margins'[2])
    /\ pc' = "clean_returned"
    /\ UNCHANGED <<write_chapters, max_gap, duration, blacks, silences, scenes,
                   breaks, ffmetadata, console>>

CallFind ==
    /\ pc = "input"
    /\ breaks' = find_optimal_breaks(duration[1], blacks, silences, scenes, max_gap)
    /\ pc' = "find_returned"
    /\ UNCHANGED <<write_chapters, max_gap, duration, blacks, silences, scenes,
                   margins, cleaned, ffmetadata, console>>

CallWrite ==
    /\ pc \in {"find_returned", "breaks_given"}
    /\ ffmetadata' = Some(chapter_document(breaks, duration[1]))
    /\ pc' = "metadata_written"
    /\ UNCHANGED <<write_chapters, max_gap, duration, blacks, silences, scenes,
                   margins, cleaned, breaks, console>>

NextCore == CallClean \/ CallFind \/ CallWrite

SpecCore == InitCore /\ [][NextCore]_vars

----------------------------------------------------------------------------
(* Vocabulary of the properties, stated on the inputs and the outputs only *)

Dur == duration[1]

MaxGapTicks == Sec(max_gap * 60)

MarginTicks == Sec(30)

FindReturned == pc = "find_returned"

IsHigh(k) == breaks[k].confidence = "high"

IsMedium(k) == breaks[k].confidence = "medium"

Centers == { blacks[i].center : i \in DOMAIN blacks }

(* the gaps the specification describes, from the input black intervals *)
ExpectedGaps ==
    IF blacks = <<>>
    THEN { <<0, Dur>> }
    ELSE { <<0, c>> : c \in { x \in Centers :
                                 (\A y \in Centers : x <= y) /\ x > MaxGapTicks } }
         \cup { g \in Centers \X Centers :
                  /\ g[1] < g[2]
                  /\ ~ \E y \in Centers : g[1] < y /\ y < g[2]
                  /\ g[2] - g[1] > MaxGapTicks }

(* the scene cuts (by position) that qualify for gap g *)
Qualifying(g) ==
    { i \in DOMAIN scenes : /\ g[1] + MarginTicks < scenes[i].timestamp
                            /\ scenes[i].timestamp < g[2] - MarginTicks }

Distance2(i, g) ==
    IF 2 * scenes[i].timestamp >= g[1] + g[2]
    THEN 2 * scenes[i].timestamp - (g[1] + g[2])
    ELSE (g[1] + g[2]) - 2 * scenes[i].timestamp

(* the medium-confidence breaks of the output lying inside gap g *)
MediumsIn(g) ==
    { k \in DOMAIN breaks : /\ IsMedium(k)
                            /\ g[1] < breaks[k].timestamp
                            /\ breaks[k].timestamp < g[2] }

----------------------------------------------------------------------------
(* C1: the list find_optimal_breaks returns is sorted non-decreasing by    *)
(* timestamp, high- and medium-confidence breaks interleaved.              *)
C1_Sorted ==
    FindReturned =>
        \A k \in 1..(Len(breaks) - 1) :
            breaks[k].timestamp <= breaks[k + 1].timestamp

(* blacks given in descending order, a scene break between two black ones *)
C1_Witness ==
    /\ FindReturned
    /\ Len(blacks) = 2
    /\ blacks[1].center > blacks[2].center
    /\ Len(breaks) = 3
    /\ IsHigh(1) /\ IsMedium(2) /\ IsHigh(3)

(* C2 as stated: for any black intervals with start <= end, every break of *)
(* the output has 0 <= timestamp <= duration.                              *)
C2_AnyBlacksInRange ==
    FindReturned =>
        \A k \in DOMAIN breaks :
            0 <= breaks[k].timestamp /\ breaks[k].timestamp <= Dur

BlacksInsideVideo ==
    \A i \in DOMAIN blacks :
        /\ 0 <= blacks[i].start
        /\ blacks[i].start <= blacks[i].end
        /\ blacks[i].end <= Dur

(* C2 amended: when every black interval lies inside the video             *)
(* (0 <= start <= end <= duration, as every interval kept by               *)
(* clean_black_spaces does), every break has 0 <= timestamp <= duration.   *)
C2_InRange ==
    (FindReturned /\ BlacksInsideVideo) =>
        \A k \in DOMAIN breaks :
            0 <= breaks[k].timestamp /\ breaks[k].timestamp <= Dur

C2_Witness ==
    /\ FindReturned
    /\ BlacksInsideVideo
    /\ \E k \in DOMAIN breaks : IsHigh(k)
    /\ \E k \in DOMAIN breaks : IsMedium(k)

(* C3: every medium-confidence break lies strictly more than 30 s inside   *)
(* a detected gap: gStart + 30 < timestamp < gEnd - 30.                    *)
C3_StrictMargin ==
    FindReturned =>
        \A k \in DOMAIN breaks :
            IsMedium(k) =>
                \E g \in ExpectedGaps :
                    /\ g[1] + MarginTicks < breaks[k].timestamp
                    /\ breaks[k].timestamp < g[2] - MarginTicks

(* a gap with one scene cut exactly on a margin, not selected, and another *)
(* inside, selected                                                        *)
C3_Witness ==
    /\ FindReturned
    /\ \E g \in ExpectedGaps :
          /\ \E i \in DOMAIN scenes :
                /\ \/ scenes[i].timestamp = g[1] + MarginTicks
                   \/ scenes[i].timestamp = g[2] - MarginTicks
                /\ \A k \in DOMAIN breaks :
                      breaks[k].timestamp # scenes[i].timestamp
          /\ MediumsIn(g) # {}

(* C5: with at least one black break, every medium-confidence break is     *)
(* strictly before the last high-confidence break.                         *)
C5_NoTrailingBreak ==
    (FindReturned /\ blacks # <<>>) =>
        \A k \in DOMAIN breaks :
            IsMedium(k) =>
                \E c \in Centers : breaks[k].timestamp < c

(* a trailing span longer than the max gap holding a scene cut more than   *)
(* 30 s from both its ends, while an earlier gap was filled                *)
C5_Witness ==
    /\ FindReturned
    /\ blacks # <<>>
    /\ \E k \in DOMAIN breaks : IsMedium(k)
    /\ \E i \in DOMAIN scenes :
          /\ \A c \in Centers :
                /\ Dur - c > MaxGapTicks
                /\ c + MarginTicks < scenes[i].timestamp
          /\ scenes[i].timestamp < Dur - MarginTicks

(* the positions of blacks that clean_black_spaces is to keep *)
Kept ==
    { i \in DOMAIN blacks : /\ blacks[i].start > margins[1]
                            /\ blacks[i].end < Dur - margins[2] }

(* C6: clean_black_spaces returns exactly the intervals with               *)
(* start > startMargin and end < duration - endMargin, unaltered and in    *)
(* input order.                                                            *)
C6_CleanFilter ==
    pc = "clean_returned" =>
        /\ Len(cleaned) = Cardinality(Kept)
        /\ \A i \in Kept :
              cleaned[Cardinality({ j \in Kept : j <= i })] = blacks[i]

(* one interval on a margin is dropped, the other is kept *)
C6_Witness ==
    /\ pc = "clean_returned"
    /\ Len(blacks) = 2
    /\ Len(cleaned) = 1
    /\ \E i \in DOMAIN blacks :
          \/ blacks[i].start = margins[1]
          \/ blacks[i].end = Dur - margins[2]

(* C7: with no black interval the single gap is [0, duration] whatever the *)
(* max gap: no break when no scene cut is strictly between 30 and          *)
(* duration - 30, otherwise exactly one break, scene / medium.             *)
C7_EmptyBlacks ==
    (FindReturned /\ blacks = <<>>) =>
        IF Qualifying(<<0, Dur>>) = {}
        THEN breaks = <<>>
        ELSE /\ Len(breaks) = 1
             /\ breaks[1].type = "scene"
             /\ breaks[1].confidence = "medium"
             /\ \E i \in Qualifying(<<0, Dur>>) :
                   breaks[1].timestamp = scenes[i].timestamp

(* duration 100, scenes [50]: exactly [{50, scene, medium}] *)
C7_Witness ==
    /\ FindReturned
    /\ blacks = <<>>
    /\ Dur = Sec(100)
    /\ scenes = <<[timestamp |-> Sec(50)]>>
    /\ breaks = <<[timestamp |-> Sec(50), type |-> "scene", confidence |-> "medium"]>>

(* C9: each gap with a qualifying scene cut gets exactly one medium break, *)
(* at the qualifying cut nearest the gap's midpoint, the first in input    *)
(* order among equally near ones.                                          *)
C9_NearestFirst ==
    FindReturned =>
        \A g \in ExpectedGaps :
            Qualifying(g) # {} =>
                LET nearest == { i \in Qualifying(g) :
                                   \A j \in Qualifying(g) :
                                       Distance2(i, g) <= Distance2(j, g) }
                    first   == CHOOSE i \in nearest : \A j \in nearest : i <= j
                IN  /\ Cardinality(MediumsIn(g)) = 1
                    /\ \A k \in MediumsIn(g) :
                          /\ breaks[k].timestamp = scenes[first].timestamp
                          /\ breaks[k].type = "scene"

(* two qualifying cuts equally far from the midpoint, the later one first  *)
(* in the input, and it is the one selected                                *)
C9_Witness ==
    /\ FindReturned
    /\ \E g \in ExpectedGaps :
          \E i, j \in Qualifying(g) :
              /\ i < j
              /\ Distance2(i, g) = Distance2(j, g)
              /\ scenes[i].timestamp > scenes[j].timestamp
              /\ \E k \in MediumsIn(g) :
                    breaks[k].timestamp = scenes[i].timestamp

(* C10: with black intervals given, every one yields a high-confidence     *)
(* break at its center, and medium breaks appear only inside gaps (first   *)
(* break beyond the max gap, or adjacent breaks more than the max gap      *)
(* apart, both strict), at most one per gap, and none exactly in the gaps *)
(* without a qualifying scene cut.                                         *)
C10_GapsOnly ==
    (FindReturned /\ blacks # <<>>) =>
        /\ \A k \in DOMAIN breaks :
              \/ IsHigh(k) /\ breaks[k].type = "black"
              \/ IsMedium(k) /\ breaks[k].type = "scene"
        /\ Cardinality({ k \in DOMAIN breaks : IsHigh(k) }) = Len(blacks)
        /\ \A c \in Centers :
              Cardinality({ k \in DOMAIN breaks :
                              IsHigh(k) /\ breaks[k].timestamp = c })
                = Cardinality({ i \in DOMAIN blacks : blacks[i].center = c })
        /\ \A k \in DOMAIN breaks :
              IsMedium(k) => \E g \in ExpectedGaps : k \in MediumsIn(g)
        /\ \A g \in ExpectedGaps :
              /\ Cardinality(MediumsIn(g)) <= 1
              /\ Qualifying(g) = {} <=> MediumsIn(g) = {}

(* two adjacent black breaks exactly the max gap apart, a scene cut more   *)
(* than 30 s from both, and no break added between them                    *)
C10_Witness ==
    /\ FindReturned
    /\ \E a, b \in Centers :
          /\ b - a = MaxGapTicks
          /\ Qualifying(<<a, b>>) # {}
          /\ \A k \in DOMAIN breaks :
                ~ (a < breaks[k].timestamp /\ breaks[k].timestamp < b)

ChaptersWritten == pc = "metadata_written"

Chapters == ffmetadata[1].chapters

Titles ==
    << "Chapter 1", "Chapter 2", "Chapter 3", "Chapter 4", "Chapter 5",
       "Chapter 6", "Chapter 7", "Chapter 8", "Chapter 9", "Chapter 10" >>

(* the structure of the document that does not depend on the resolution *)
ChapterLayout ==
    /\ Len(Chapters) = Len(breaks) + 1
    /\ Chapters[1].START = 0
    /\ \A i \in 2..Len(Chapters) : Chapters[i].START = Chapters[i - 1].END
    /\ \A i \in DOMAIN Chapters : Chapters[i].title = Titles[i]

(* C4 as stated: N + 1 chapters, chapter 1 starts at 0, chapter i ends at  *)
(* break[i].timestamp, each later chapter starts where the previous one    *)
(* ended, the last ends at duration, chapter i is titled "Chapter i".      *)
C4_EndsAtTimestamp ==
    ChaptersWritten =>
        /\ ChapterLayout
        /\ \A i \in DOMAIN breaks : Ms(Chapters[i].END) = breaks[i].timestamp
        /\ Ms(Chapters[Len(Chapters)].END) = Dur

(* C4 amended: the same, with every START and END a whole number of        *)
(* milliseconds: chapter i ends at break[i].timestamp truncated to the     *)
(* millisecond, the last chapter at duration truncated to the millisecond. *)
C4_Chapters ==
    ChaptersWritten =>
        /\ ChapterLayout
        /\ \A i \in DOMAIN breaks :
              /\ Ms(Chapters[i].END) <= breaks[i].timestamp
              /\ breaks[i].timestamp < Ms(Chapters[i].END + 1)
        /\ Ms(Chapters[Len(Chapters)].END) <= Dur
        /\ Dur < Ms(Chapters[Len(Chapters)].END + 1)
        /\ ( /\ Len(breaks) = 2
             /\ breaks[1].timestamp = Sec(30)
             /\ breaks[2].timestamp = Sec(90)
             /\ Dur = Sec(120) )
           => /\ Chapters[1].START = 0     /\ Chapters[1].END = 30000
              /\ Chapters[2].START = 30000 /\ Chapters[2].END = 90000
              /\ Chapters[3].START = 90000 /\ Chapters[3].END = 120000

(* two breaks, the first not on a whole millisecond: its chapter ends at   *)
(* the millisecond below and the next chapter starts there                 *)
C4_Witness ==
    /\ ChaptersWritten
    /\ Len(breaks) = 2
    /\ Ms(Chapters[1].END) < breaks[1].timestamp
    /\ Chapters[2].START = Chapters[1].END
    /\ Chapters[2].START > 0

Proceeded == pc \in {"detected", "cleaned", "write", "remux", "returned"}

(* what C8 says besides the condition of the abort: an aborted run has     *)
(* reported the error and has detected, selected and written nothing; the  *)
(* chapter writer runs exactly when write_chapters is set                  *)
C8_AbortEffects ==
    /\ pc = "aborted" =>
          /\ console[Len(console)].text = "Could not get duration"
          /\ blacks = <<>> /\ silences = <<>> /\ scenes = <<>>
          /\ breaks = <<>> /\ ffmetadata = None
    /\ pc \in {"write", "remux"} => write_chapters
    /\ ffmetadata # None => write_chapters
    /\ (pc = "returned" /\ write_chapters) =>
          console[Len(console)].text \in {"Chapters written successfully",
                                     "Error writing chapters"}
    /\ (pc = "returned" /\ ~write_chapters) =>
          console[Len(console)].text \notin {"Chapters written successfully",
                                        "Error writing chapters"}

(* C8: process_video aborts exactly when the probe could not determine the *)
(* duration; then nothing is detected, computed or written; for every      *)
(* determined duration it proceeds, and it writes the chapter document     *)
(* exactly when write_chapters is set.                                     *)
C8_AbortIffProbeFailed ==
    /\ pc = "aborted" => duration = None
    /\ Proceeded => duration # None
    /\ C8_AbortEffects

(* what the program does instead: it aborts exactly when the duration is   *)
(* None or zero                                                            *)
C8_AbortIffNotDuration ==
    /\ pc = "aborted" => (duration = None \/ duration = Some(0))
    /\ Proceeded => (duration # None /\ duration # Some(0))
    /\ C8_AbortEffects

====
